---- MODULE Spec2Model ----
(***************************************************************************)
(* Model of src/adapter.rs: the Adapter proxy of the Bluetooth daemon.     *)
(*                                                                         *)
(* Strings whose characters the code inspects (object paths, address       *)
(* texts, modalias texts) are sequences of one-character strings; strings  *)
(* that are only compared whole (property names, interface names, address  *)
(* type texts) are TLA+ strings.                                           *)
(***************************************************************************)
EXTENDS Integers, Sequences, FiniteSets, TLC

VARIABLES
    adapters,   \* the Adapter values constructed so far: handle -> [name, path]
    props,      \* daemon side: the Adapter1 property values of the exposed adapter
    objects,    \* daemon side: the managed-object tree, a map path -> interface names
    last,       \* the call that completed last: what was sent, what came back,
                \* and whether the daemon's state is still as that call left it
    trip        \* history variable: progress of an uninterrupted get / set / get

vars == <<adapters, props, objects, last, trip>>

\* ------------------------------------------------------------------ bounds

MaxProxies == 2
MaxObjects == 3
\* how far the daemon's state may be from its initial state: the properties
\* that differ from their defaults plus the device objects
MaxChanged == 2

\* --------------------------------------------------------------- constants

INTERFACE == "org.bluez.Adapter1"
DEVICE_INTERFACE == "org.bluez.Device1"
PREFIX == <<"/", "o", "r", "g", "/", "b", "l", "u", "e", "z", "/">>

\* ----------------------------------------------------------------- strings

HexDigits == <<"0", "1", "2", "3", "4", "5", "6", "7", "8", "9",
               "A", "B", "C", "D", "E", "F">>
LowerHex == <<"0", "1", "2", "3", "4", "5", "6", "7", "8", "9",
              "a", "b", "c", "d", "e", "f">>

IsHex(c) == \E i \in 1..16 : HexDigits[i] = c \/ LowerHex[i] = c

HexVal(c) == (CHOOSE i \in 1..16 : HexDigits[i] = c \/ LowerHex[i] = c) - 1

StartsWith(s, pre) ==
    /\ Len(pre) <= Len(s)
    /\ SubSeq(s, 1, Len(pre)) = pre

\* str::strip_prefix: the remainder after the prefix, or None
strip_prefix(s, pre) ==
    IF StartsWith(s, pre)
    THEN [some |-> TRUE, val |-> SubSeq(s, Len(pre) + 1, Len(s))]
    ELSE [some |-> FALSE, val |-> <<>>]

\* str::replace for a one-character pattern
replace(s, from, to) ==
    [i \in 1..Len(s) |-> IF s[i] = from THEN to ELSE s[i]]

\* ----------------------------------------------------------------- Address

AddrOctets == 6

\* Address::from_str: six two-digit hexadecimal fields separated by ':'
ParseAddress(s) ==
    LET n == 3 * AddrOctets - 1
        wellFormed ==
            /\ Len(s) = n
            /\ \A i \in 1..n : IF i % 3 = 0 THEN s[i] = ":" ELSE IsHex(s[i])
    IN  IF wellFormed
        THEN [ok |-> TRUE,
              val |-> [k \in 1..AddrOctets |->
                          16 * HexVal(s[3 * k - 2]) + HexVal(s[3 * k - 1])]]
        ELSE [ok |-> FALSE, val |-> <<>>]

\* Address's Display: upper-case two-digit fields joined by sep
RECURSIVE FormatOctets(_, _, _)
FormatOctets(a, k, sep) ==
    IF k > Len(a) THEN <<>>
    ELSE (IF k = 1 THEN <<>> ELSE <<sep>>)
         \o <<HexDigits[(a[k] \div 16) + 1], HexDigits[(a[k] % 16) + 1]>>
         \o FormatOctets(a, k + 1, sep)

AddressToString(a) == FormatOctets(a, 1, ":")

\* ------------------------------------------------------ Adapter: identity

hci0 == <<"h", "c", "i", "0">>
hci1 == <<"h", "c", "i", "1">>
hci10 == <<"h", "c", "i", "1", "0">>

AdapterNames == {hci0, hci1, hci10}

\* Adapter::new: the fields of the value it builds
NewPathMissingPrefix(name) == [name |-> name, path |-> name]

AdapterNew(name) == [name |-> name, path |-> PREFIX \o name]

\* Adapter::dbus_path
dbus_path(self) == self.path

\* ------------------------------------------------- device_addresses: scan

DEV == <<"/", "d", "e", "v", "_">>

\* format!("{}/dev_", self.dbus_path())
ScanPrefix(self) == dbus_path(self) \o DEV

\* the first index >= i at which s holds c, or Len(s) + 1
RECURSIVE IndexFrom(_, _, _)
IndexFrom(s, c, i) ==
    IF i > Len(s) THEN Len(s) + 1
    ELSE IF s[i] = c THEN i ELSE IndexFrom(s, c, i + 1)

\* a looser match a scan could make: any path below the adapter's path text
\* that holds "/dev_", the remainder being what follows it
LooseChild(path, self) ==
    LET p == dbus_path(self)
        at == IndexFrom(path, "/", Len(PREFIX) + 1)
    IN  IF StartsWith(path, p) /\ StartsWith(SubSeq(path, at, Len(path)), DEV)
        THEN [some |-> TRUE, val |-> SubSeq(path, at + Len(DEV), Len(path))]
        ELSE [some |-> FALSE, val |-> <<>>]

\* path.strip_prefix(&prefix)
ChildRemainder(path, self) == strip_prefix(path, ScanPrefix(self))

\* the arm guard: Some(addr) if interfaces.contains_key(device::INTERFACE)
ArmNoInterfaceTest(rem, interfaces) == rem.some

ArmMatches(rem, interfaces) == rem.some /\ DEVICE_INTERFACE \in interfaces

\* what the loop does with one matched entry whose remainder is `parsed`
StepSkipUnparsable(addrs, parsed) ==
    [go |-> TRUE, addrs |-> IF parsed.ok THEN Append(addrs, parsed.val) ELSE addrs]

StepPrepend(addrs, parsed) ==
    IF parsed.ok
    THEN [go |-> TRUE, addrs |-> <<parsed.val>> \o addrs]
    ELSE [go |-> FALSE, addrs |-> addrs]

MatchedStep(addrs, parsed) ==
    IF parsed.ok
    THEN [go |-> TRUE, addrs |-> Append(addrs, parsed.val)]
    ELSE [go |-> FALSE, addrs |-> addrs]

\* the for loop over the reply, from entry i on
RECURSIVE ScanFrom(_, _, _, _)
ScanFrom(reply, i, self, addrs) ==
    IF i > Len(reply) THEN [tag |-> "Ok", val |-> addrs]
    ELSE LET rem == ChildRemainder(reply[i].path, self)
         IN  IF ArmMatches(rem, reply[i].interfaces)
             THEN LET step == MatchedStep(addrs,
                                  ParseAddress(replace(rem.val, "_", ":")))
                  IN  IF step.go
                      THEN ScanFrom(reply, i + 1, self, step.addrs)
                      ELSE [tag |-> "ParseError", val |-> <<>>]
             ELSE ScanFrom(reply, i + 1, self, addrs)

\* Adapter::device_addresses, given what get_managed_objects() came back with
device_addresses(self, mo) ==
    IF ~mo.ok THEN [tag |-> "RemoteCallError", val |-> <<>>]
    ELSE ScanFrom(mo.val, 1, self, <<>>)

\* ------------------------------------------------------------ AddressType

\* AddressType::from_str
ParseAddressType(s) ==
    IF s = "public" THEN [ok |-> TRUE, val |-> "Public"]
    ELSE IF s = "random" THEN [ok |-> TRUE, val |-> "Random"]
    ELSE [ok |-> FALSE, val |-> ""]

\* AddressType's Display
AddressTypeToString(t) == IF t = "Public" THEN "public" ELSE "random"

\* --------------------------------------------------------------- Modalias

RECURSIVE HexNumber(_, _)
HexNumber(s, acc) ==
    IF s = <<>> THEN acc ELSE HexNumber(Tail(s), 16 * acc + HexVal(Head(s)))

\* Modalias::from_str: <bus>:v<vendor>p<product>d<version>, four hex digits each
ParseModalias(s) ==
    LET colon == IndexFrom(s, ":", 1)
        rest == SubSeq(s, colon + 1, Len(s))
        wellFormed ==
            /\ colon <= Len(s)
            /\ Len(rest) = 15
            /\ rest[1] = "v" /\ rest[6] = "p" /\ rest[11] = "d"
            /\ \A i \in {2, 3, 4, 5, 7, 8, 9, 10, 12, 13, 14, 15} : IsHex(rest[i])
    IN  IF wellFormed
        THEN [ok |-> TRUE,
              val |-> [source |-> SubSeq(s, 1, colon - 1),
                       vendor |-> HexNumber(SubSeq(rest, 2, 5), 0),
                       product |-> HexNumber(SubSeq(rest, 7, 10), 0),
                       device |-> HexNumber(SubSeq(rest, 12, 15), 0)]]
        ELSE [ok |-> FALSE, val |-> <<>>]

\* ------------------------------------------------------------- properties

Getters == {"address", "system_name", "alias", "class", "is_powered",
            "is_discoverable", "is_pairable", "pairable_timeout",
            "discoverable_timeout", "is_discovering", "uuids"}

Setters == {"set_alias", "set_powered", "set_discoverable", "set_pairable",
            "set_pairable_timeout", "set_discoverable_timeout"}

\* the define_property! invocations: accessor -> remote property name
PropertyName(fn) ==
    CASE fn = "address" -> "Address"
      [] fn = "system_name" -> "Name"
      [] fn \in {"alias", "set_alias"} -> "Alias"
      [] fn = "class" -> "Class"
      [] fn \in {"is_powered", "set_powered"} -> "Powered"
      [] fn \in {"is_discoverable", "set_discoverable"} -> "Discoverable"
      [] fn \in {"is_pairable", "set_pairable"} -> "Pairable"
      [] fn \in {"pairable_timeout", "set_pairable_timeout"} -> "PairableTimeout"
      [] fn \in {"discoverable_timeout", "set_discoverable_timeout"}
            -> "DiscoverableTimeout"
      [] fn = "is_discovering" -> "Discovering"
      [] fn = "uuids" -> "UUIDs"

Ok(v) == [tag |-> "Ok", val |-> v]
RemoteCallError == [tag |-> "RemoteCallError", val |-> <<>>]
ParseError == [tag |-> "ParseError", val |-> <<>>]

\* the messages an operation puts on the bus
GetCall(self, name) ==
    [path |-> dbus_path(self), member |-> "Get", args |-> <<INTERFACE, name>>]
\* a setter that sends the type's default value in place of its argument
SetCallDefault(self, name, value) ==
    [path |-> dbus_path(self), member |-> "Set",
     args |-> <<INTERFACE, name,
                CASE name = "Alias" -> ""
                  [] name \in {"PairableTimeout", "DiscoverableTimeout"} -> 0
                  [] OTHER -> FALSE>>]

SetCall(self, name, value) ==
    [path |-> dbus_path(self), member |-> "Set", args |-> <<INTERFACE, name, value>>]
MethodCall(self, member, args) ==
    [path |-> dbus_path(self), member |-> member, args |-> args]

\* a generated getter: self.get_property(name).await
PropertyGetter(fn, reply) ==
    IF reply.ok THEN Ok(reply.val) ELSE RemoteCallError

\* a generated setter: self.set_property(name, value).await
PropertySetter(fn, reply) ==
    IF reply.ok THEN Ok(<<>>) ELSE RemoteCallError

\* address_type that answers from the previous address_type call when that
\* one succeeded
AddressTypeCached(reply) ==
    IF last.fn = "address_type" /\ last.res.tag = "Ok" THEN last.res
    ELSE IF ~reply.ok THEN RemoteCallError
    ELSE LET parsed == ParseAddressType(reply.val)
         IN  IF parsed.ok THEN Ok(parsed.val) ELSE ParseError

\* address_type that reports every failure as a parse failure
AddressTypeOneErrorKind(reply) ==
    IF ~reply.ok THEN ParseError
    ELSE LET parsed == ParseAddressType(reply.val)
         IN  IF parsed.ok THEN Ok(parsed.val) ELSE ParseError

\* Adapter::address_type
address_type(reply) ==
    IF ~reply.ok THEN RemoteCallError
    ELSE LET parsed == ParseAddressType(reply.val)
         IN  IF parsed.ok THEN Ok(parsed.val) ELSE ParseError

\* Adapter::modalias
modalias(reply) ==
    IF ~reply.ok THEN RemoteCallError
    ELSE LET parsed == ParseModalias(reply.val)
         IN  IF parsed.ok THEN Ok(parsed.val) ELSE ParseError

\* ---------------------------------------------------------------- methods

PathChars == {"a", "b", "c", "d", "e", "f", "g", "h", "i", "j", "k", "l", "m",
              "n", "o", "p", "q", "r", "s", "t", "u", "v", "w", "x", "y", "z",
              "A", "B", "C", "D", "E", "F", "G", "H", "I", "J", "K", "L", "M",
              "N", "O", "P", "Q", "R", "S", "T", "U", "V", "W", "X", "Y", "Z",
              "0", "1", "2", "3", "4", "5", "6", "7", "8", "9", "_"}

\* the bus's object path grammar: "/" or /-separated non-empty [A-Za-z0-9_] elements
IsValidObjectPath(s) ==
    /\ Len(s) >= 1
    /\ s[1] = "/"
    /\ Len(s) > 1 => s[Len(s)] # "/"
    /\ \A i \in 1..Len(s) :
          \/ s[i] \in PathChars
          \/ s[i] = "/" /\ (i = 1 \/ s[i - 1] # "/")

\* Path::from(device): the conversion panics on a string that is no object
\* path when the bus library validates strings (a build feature turns that off)
PathFrom(device, validating) ==
    [ok |-> ~validating \/ IsValidObjectPath(device), val |-> device]

\* remove_device that swallows the daemon's refusal
RemoveAbsorbing(reply) == Ok(<<>>)

\* Adapter::remove_device: the result, from the daemon's reply
remove_device(reply) ==
    IF reply.ok THEN Ok(<<>>) ELSE RemoteCallError

\* connect_device with the AddressType key inserted unconditionally
FilterAlwaysTyped(address, address_type_opt) ==
    [Address |-> AddressToString(address),
     AddressType |-> IF address_type_opt.some
                     THEN AddressTypeToString(address_type_opt.val)
                     ELSE "public"]

\* connect_device: the filter map m
ConnectFilter(address, address_type_opt) ==
    IF address_type_opt.some
    THEN [Address |-> AddressToString(address),
          AddressType |-> AddressTypeToString(address_type_opt.val)]
    ELSE [Address |-> AddressToString(address)]

\* connect_device: the result, from the daemon's reply
connect_device(reply) ==
    IF reply.ok THEN Ok(reply.val) ELSE RemoteCallError

\* ------------------------------------------------------------- the daemon

A1 == <<170, 187, 204, 221, 238, 255>>
A2 == <<17, 34, 51, 68, 85, 102>>
Addresses == {A1, A2}

SystemName == "host"

Writable == {"Alias", "Powered", "Discoverable", "Pairable",
             "PairableTimeout", "DiscoverableTimeout"}

\* the properties whose value the model keeps as daemon state
Tracked == Writable \cup {"AddressType"}

\* the values a tracked property takes in the model
Values(name) ==
    CASE name = "Alias" -> {"", "bt", SystemName}
      [] name \in {"Powered", "Discoverable", "Pairable"} -> BOOLEAN
      [] name = "PairableTimeout" -> {0, 30}
      [] name = "DiscoverableTimeout" -> {0, 180}
      [] name = "AddressType" -> {"public", "random", "static"}

ValidModalias == <<"u", "s", "b", ":", "v", "1", "D", "6", "B", "p", "0", "2",
                   "4", "6", "d", "0", "5", "3", "F">>

\* the answers of the other properties: inputs of a call, not kept as state
UntrackedValues(name) ==
    CASE name = "Address" -> {AddressToString(A1)}
      [] name = "Name" -> {SystemName}
      [] name = "Class" -> {7936}
      [] name = "Discovering" -> BOOLEAN
      [] name = "UUIDs" -> {<<"1800", "180f">>}
      [] name = "Modalias" -> {ValidModalias, <<"u", "s", "b", ":", "1", "D", "6", "B">>}

\* adapter objects at <prefix><name>, device children at <adapter path>/dev_<address>
DevicePath(adapterPath, address) == adapterPath \o DEV \o FormatOctets(address, 1, "_")

AdapterObject(name) == [path |-> PREFIX \o name, interfaces |-> {INTERFACE}]

\* whether the daemon exposes an adapter object at path
Exposed(path) ==
    \E e \in objects : e.path = path /\ INTERFACE \in e.interfaces

\* what a Get shows: an alias that is not set shows the system name
Shown(p, name) ==
    IF name = "Alias" /\ p.Alias = "" THEN SystemName ELSE p[name]

Failed == [ok |-> FALSE, val |-> <<>>]

\* the values the daemon can answer Get(INTERFACE, name) with
GetValues(name) ==
    IF name \in Tracked THEN {Shown(props, name)} ELSE UntrackedValues(name)

\* the bus's reply to a Get: the call is delivered or not, the object and the
\* property are there or not
GetReply(msg, delivered, present, value) ==
    IF delivered /\ present /\ Exposed(msg.path)
    THEN [ok |-> TRUE, val |-> value]
    ELSE Failed

\* whether the daemon accepts a Set: setting Discoverable fails while the
\* adapter is switched off
Accepts(msg) ==
    /\ Exposed(msg.path)
    /\ msg.args[2] = "Discoverable" => props.Powered

SetReply(msg, delivered) == [ok |-> delivered /\ Accepts(msg), val |-> <<>>]

\* the daemon's properties after an accepted Set
Applied(p, msg) == [p EXCEPT ![msg.args[2]] = msg.args[3]]

\* RemoveDevice(path): the path must be a device object below the adapter
RemoveReply(msg, delivered) ==
    [ok |-> /\ delivered
            /\ Exposed(msg.path)
            /\ StartsWith(msg.args[1], msg.path \o DEV)
            /\ \E e \in objects : e.path = msg.args[1] /\ DEVICE_INTERFACE \in e.interfaces,
     val |-> <<>>]

\* ConnectDevice(filter): on success the device object exists below the
\* adapter and its path is returned
ConnectedObject(msg) ==
    [path |-> msg.path \o DEV \o replace(msg.args[1].Address, ":", "_"),
     interfaces |-> {DEVICE_INTERFACE}]

ConnectReply(msg, established) ==
    IF established /\ Exposed(msg.path)
    THEN [ok |-> TRUE, val |-> ConnectedObject(msg).path]
    ELSE Failed

\* the orders in which a map's entries can be iterated
Orderings(S) ==
    {f \in [1..Cardinality(S) -> S] : \A i, j \in 1..Cardinality(S) : f[i] = f[j] => i = j}

\* ------------------------------------------------------------------ state

NoSelf == [name |-> <<>>, path |-> <<>>]
NoCall == [fn |-> "", self |-> NoSelf, arg |-> <<>>, sent |-> <<>>,
           reply |-> Failed, res |-> [tag |-> "", val |-> <<>>], current |-> TRUE]
NoTrip == [stage |-> 0, fn |-> "", v |-> <<>>, w |-> <<>>]

Completed(fn, self, arg, sent, reply, res) ==
    [fn |-> fn, self |-> self, arg |-> arg, sent |-> sent, reply |-> reply,
     res |-> res, current |-> TRUE]

\* the setter a define_property! invocation declares beside its getter
SetterOf(getter) ==
    CASE getter = "alias" -> "set_alias"
      [] getter = "is_powered" -> "set_powered"
      [] getter = "is_discoverable" -> "set_discoverable"
      [] getter = "is_pairable" -> "set_pairable"
      [] getter = "pairable_timeout" -> "set_pairable_timeout"
      [] getter = "discoverable_timeout" -> "set_discoverable_timeout"
      [] OTHER -> ""

\* the history of an uninterrupted get = v, set(v) = Ok, get = w through one
\* property's accessors
TripAfterGet(fn, res) ==
    IF res.tag # "Ok" \/ SetterOf(fn) = "" THEN NoTrip
    ELSE IF trip.stage = 2 /\ trip.fn = fn
    THEN [stage |-> 3, fn |-> fn, v |-> trip.v, w |-> res.val]
    ELSE [stage |-> 1, fn |-> fn, v |-> res.val, w |-> <<>>]

TripAfterSet(fn, value, res) ==
    IF res.tag = "Ok" /\ trip.stage = 1 /\ SetterOf(trip.fn) = fn /\ trip.v = value
    THEN [stage |-> 2, fn |-> trip.fn, v |-> value, w |-> <<>>]
    ELSE NoTrip

InitDaemonProps ==
    [Alias |-> "", Powered |-> FALSE, Discoverable |-> FALSE, Pairable |-> TRUE,
     PairableTimeout |-> 0, DiscoverableTimeout |-> 180, AddressType |-> "public"]

Changed(p, o) ==
    Cardinality({n \in Tracked : p[n] # InitDaemonProps[n]})
        + Cardinality({e \in o : DEVICE_INTERFACE \in e.interfaces})

\* the distinct Adapter values alive
Selves == {adapters[h] : h \in DOMAIN adapters}

Init ==
    /\ adapters = <<>>
    /\ props = InitDaemonProps
    /\ objects = {AdapterObject(hci0)}
    /\ last = NoCall
    /\ trip = NoTrip

\* ---------------------------------------------------------------- actions

\* Adapter::new(session, name)
New(name) ==
    /\ Len(adapters) < MaxProxies
    /\ adapters' = Append(adapters, AdapterNew(name))
    /\ UNCHANGED <<props, objects, last, trip>>

\* #[derive(Clone)]
Clone(h) ==
    /\ Len(adapters) < MaxProxies
    /\ adapters' = Append(adapters, adapters[h])
    /\ UNCHANGED <<props, objects, last, trip>>

\* the inputs of a Get: an undelivered call has no value to vary
GetInputs(name) ==
    {[delivered |-> TRUE, value |-> v] : v \in GetValues(name)}
        \cup {[delivered |-> FALSE, value |-> CHOOSE v \in GetValues(name) : TRUE]}

\* a generated property getter
Get(self, fn) ==
    LET msg == GetCall(self, PropertyName(fn))
    IN  \E in \in GetInputs(msg.args[2]) :
            LET reply == GetReply(msg, in.delivered, TRUE, in.value)
                res == PropertyGetter(fn, reply)
            IN  /\ last' = Completed(fn, self, <<>>, <<msg>>, reply, res)
                /\ trip' = TripAfterGet(fn, res)
                /\ UNCHANGED <<adapters, props, objects>>

\* a generated property setter
Set(self, fn, value, delivered) ==
    LET msg == SetCall(self, PropertyName(fn), value)
        reply == SetReply(msg, delivered)
        res == PropertySetter(fn, reply)
    IN  /\ last' = Completed(fn, self, value, <<msg>>, reply, res)
        /\ props' = IF reply.ok THEN Applied(props, msg) ELSE props
        /\ Changed(props', objects) <= MaxChanged
        /\ trip' = TripAfterSet(fn, value, res)
        /\ UNCHANGED <<adapters, objects>>

AddressType(self) ==
    LET msg == GetCall(self, "AddressType")
    IN  \E in \in GetInputs("AddressType") :
            LET reply == GetReply(msg, in.delivered, TRUE, in.value)
            IN  /\ last' = Completed("address_type", self, <<>>, <<msg>>, reply,
                                     address_type(reply))
                /\ trip' = NoTrip
                /\ UNCHANGED <<adapters, props, objects>>

ModaliasGet(self) ==
    LET msg == GetCall(self, "Modalias")
    IN  \E in \in GetInputs("Modalias"), present \in BOOLEAN :
            LET reply == GetReply(msg, in.delivered, present, in.value)
            IN  /\ last' = Completed("modalias", self, <<>>, <<msg>>, reply,
                                     modalias(reply))
                /\ trip' = NoTrip
                /\ UNCHANGED <<adapters, props, objects>>

\* the strings remove_device is called with: the known objects, a path the
\* daemon does not know, a string that is no object path
RemoveArgs ==
    {e.path : e \in objects}
        \cup {DevicePath(PREFIX \o hci0, A2), <<"d", "e", "v">>}

RemoveDevice(self, device, validating, delivered) ==
    LET path == PathFrom(device, validating)
        msg == MethodCall(self, "RemoveDevice", <<path.val>>)
        reply == RemoveReply(msg, delivered)
    IN  /\ trip' = NoTrip
        /\ UNCHANGED <<adapters, props>>
        /\ IF ~path.ok
           THEN /\ last' = Completed("remove_device", self, device, <<>>, Failed,
                                     [tag |-> "Panic", val |-> <<>>])
                /\ UNCHANGED objects
           ELSE /\ last' = Completed("remove_device", self, device, <<msg>>, reply,
                                     remove_device(reply))
                /\ objects' = IF reply.ok
                              THEN {e \in objects : e.path # msg.args[1]}
                              ELSE objects

None == [some |-> FALSE, val |-> ""]
Some(v) == [some |-> TRUE, val |-> v]

ConnectDevice(self, address, address_type_opt, established) ==
    LET msg == MethodCall(self, "ConnectDevice",
                          <<ConnectFilter(address, address_type_opt)>>)
        reply == ConnectReply(msg, established)
    IN  /\ last' = Completed("connect_device", self, <<address, address_type_opt>>,
                             <<msg>>, reply, connect_device(reply))
        /\ objects' = IF reply.ok THEN objects \cup {ConnectedObject(msg)} ELSE objects
        /\ Changed(props, objects') <= MaxChanged
        /\ trip' = NoTrip
        /\ UNCHANGED <<adapters, props>>

DeviceAddresses(self) ==
    LET root == [name |-> <<>>, path |-> <<"/">>]
    IN  \E mo \in {Failed} \cup {[ok |-> TRUE, val |-> r] : r \in Orderings(objects)} :
            /\ last' = Completed("device_addresses", self, <<>>,
                                 <<MethodCall(root, "GetManagedObjects", <<>>)>>,
                                 mo, device_addresses(self, mo))
            /\ trip' = NoTrip
            /\ UNCHANGED <<adapters, props, objects>>

\* the daemon's state changing by itself: a timer runs out, the adapter is
\* replugged, another client sets a property
DaemonMutate(name, value) ==
    /\ props[name] # value
    /\ props' = [props EXCEPT ![name] = value]
    /\ Changed(props', objects) <= MaxChanged
    /\ trip' = NoTrip
    /\ last' = [last EXCEPT !.current = FALSE]
    /\ UNCHANGED <<adapters, objects>>

Next ==
    \/ New(hci0)
    \/ \E h \in DOMAIN adapters : Clone(h)
    \/ \E self \in Selves, fn \in Getters : Get(self, fn)
    \/ \E self \in Selves, fn \in Setters, delivered \in BOOLEAN :
          \E value \in Values(PropertyName(fn)) : Set(self, fn, value, delivered)
    \/ \E self \in Selves : AddressType(self)
    \/ \E self \in Selves : ModaliasGet(self)
    \/ \E self \in Selves, device \in RemoveArgs, delivered \in BOOLEAN :
          \E validating \in IF IsValidObjectPath(device) THEN {TRUE} ELSE BOOLEAN :
              RemoveDevice(self, device, validating, delivered)
    \/ \E self \in Selves, address \in Addresses, established \in BOOLEAN :
          \E t \in {None, Some("Public"), Some("Random")} :
              ConnectDevice(self, address, t, established)
    \/ \E self \in Selves : DeviceAddresses(self)
    \/ \E name \in Tracked : \E value \in Values(name) : DaemonMutate(name, value)

Spec == Init /\ [][Next]_vars

\* ------------------------------------------------ the scan over any tree

UnderAdapter(name, tail) == PREFIX \o name \o tail

TailA1 == <<"A", "A", "_", "B", "B", "_", "C", "C", "_", "D", "D", "_",
            "E", "E", "_", "F", "F">>
TailA1Lower == <<"a", "a", "_", "b", "b", "_", "c", "c", "_", "d", "d", "_",
                 "e", "e", "_", "f", "f">>
TailA2 == <<"1", "1", "_", "2", "2", "_", "3", "3", "_", "4", "4", "_",
            "5", "5", "_", "6", "6">>
Unrelated == <<"/", "u", "n", "r", "e", "l", "a", "t", "e", "d", "_", "o", "b", "j">>
GATT_INTERFACE == "org.bluez.GattService1"

\* the objects a daemon's tree is drawn from
ObjectCandidates ==
    { AdapterObject(hci0),
      [path |-> UnderAdapter(hci0, DEV \o TailA1), interfaces |-> {DEVICE_INTERFACE}],
      [path |-> UnderAdapter(hci0, DEV \o TailA1Lower), interfaces |-> {DEVICE_INTERFACE}],
      [path |-> UnderAdapter(hci0, DEV \o TailA2), interfaces |-> {DEVICE_INTERFACE}],
      [path |-> UnderAdapter(hci0, DEV \o TailA2), interfaces |-> {GATT_INTERFACE}],
      [path |-> UnderAdapter(hci0, DEV \o <<"Z", "Z">>), interfaces |-> {DEVICE_INTERFACE}],
      [path |-> UnderAdapter(hci0, DEV \o TailA1 \o <<"/", "s", "v", "1">>),
       interfaces |-> {GATT_INTERFACE}],
      [path |-> UnderAdapter(hci0, Unrelated), interfaces |-> {GATT_INTERFACE}],
      [path |-> UnderAdapter(hci0, Unrelated), interfaces |-> {DEVICE_INTERFACE}],
      [path |-> UnderAdapter(hci1, DEV \o TailA1), interfaces |-> {DEVICE_INTERFACE}],
      [path |-> UnderAdapter(hci10, DEV \o TailA2), interfaces |-> {DEVICE_INTERFACE}] }

\* a tree is a map: no two of its objects share a path
IsTree(S) ==
    /\ Cardinality(S) <= MaxObjects
    /\ \A e1, e2 \in S : e1.path = e2.path => e1 = e2

InitScan ==
    /\ adapters = <<>>
    /\ props = InitDaemonProps
    /\ objects \in {S \in SUBSET ObjectCandidates : IsTree(S)}
    /\ last = NoCall
    /\ trip = NoTrip

NextScan ==
    \/ \E name \in AdapterNames : adapters = <<>> /\ New(name)
    \/ \E self \in Selves : DeviceAddresses(self)

SpecScan == InitScan /\ [][NextScan]_vars

\* ----------------------------------------------------------------- claims

\* what the claims say of one entry of a reply, read from the path itself
HasPrefixText(path, pre) ==
    /\ Len(path) >= Len(pre)
    /\ \A i \in 1..Len(pre) : path[i] = pre[i]

\* the entry passes both tests: below self's path + "/dev_", device interface
Passes(e, self) ==
    /\ HasPrefixText(e.path, self.path \o <<"/", "d", "e", "v", "_">>)
    /\ DEVICE_INTERFACE \in e.interfaces

\* the text after "<self's path>/dev_", every '_' turned into ':'
Colonised(e, self) ==
    LET from == Len(self.path) + 5
    IN  [i \in 1..(Len(e.path) - from) |->
            IF e.path[from + i] = "_" THEN ":" ELSE e.path[from + i]]

\* the adapter an object lives below: the path element after the root prefix
OwnerName(path) ==
    SubSeq(path, Len(PREFIX) + 1, IndexFrom(path, "/", Len(PREFIX) + 1) - 1)

ScanDone == last.fn = "device_addresses" /\ last.reply.ok
ScanOk == ScanDone /\ last.res.tag = "Ok"

ExampleDevice ==
    [path |-> UnderAdapter(hci0, DEV \o TailA1), interfaces |-> {DEVICE_INTERFACE}]
ExampleUnrelated ==
    [path |-> UnderAdapter(hci0, Unrelated), interfaces |-> {GATT_INTERFACE}]

\* C1: a successful device_addresses() returns exactly the addresses of the
\* reply's entries that lie below "<adapter path>/dev_" and implement the
\* device interface, each address being the rest of the path with '_' turned
\* into ':' and parsed; a reply of .../hci0/dev_AA_BB_CC_DD_EE_FF (device) and
\* .../hci0/unrelated_obj yields exactly [AA:BB:CC:DD:EE:FF].
C1_ScanReturnsMatchedAddresses ==
    ScanOk =>
        LET reply == last.reply.val
            self == last.self
            matched == {i \in 1..Len(reply) : Passes(reply[i], self)}
        IN  /\ {last.res.val[k] : k \in 1..Len(last.res.val)}
                 = {ParseAddress(Colonised(reply[i], self)).val : i \in matched}
            /\ \A i \in matched : ParseAddress(Colonised(reply[i], self)).ok
            /\ ( /\ self.name = hci0
                 /\ {reply[i] : i \in 1..Len(reply)} = {ExampleDevice, ExampleUnrelated} )
               => last.res.val = <<A1>>

C1_Witness ==
    /\ ScanOk
    /\ last.self.name = hci0
    /\ {last.reply.val[i] : i \in 1..Len(last.reply.val)}
         = {ExampleDevice, ExampleUnrelated}
    /\ last.res.val = <<A1>>

\* C2: device_addresses() is all-or-nothing: it ends in ParseError with no
\* address at all exactly when some entry that passes both tests has a rest
\* that does not parse, wherever that entry stands in the reply; an entry that
\* fails a test never causes an error.
C2_ScanAllOrNothing ==
    ScanDone =>
        LET reply == last.reply.val
            self == last.self
            bad == \E i \in 1..Len(reply) :
                      /\ Passes(reply[i], self)
                      /\ ~ParseAddress(Colonised(reply[i], self)).ok
        IN  /\ bad => last.res = [tag |-> "ParseError", val |-> <<>>]
            /\ ~bad => last.res.tag = "Ok"

C2_Witness ==
    /\ ScanDone
    /\ last.res.tag = "ParseError"
    /\ \E i, j \in 1..Len(last.reply.val) :
          /\ i < j
          /\ Passes(last.reply.val[i], last.self)
          /\ ParseAddress(Colonised(last.reply.val[i], last.self)).ok
          /\ Passes(last.reply.val[j], last.self)
          /\ ~ParseAddress(Colonised(last.reply.val[j], last.self)).ok
    /\ \E i \in 1..Len(last.reply.val) : ~Passes(last.reply.val[i], last.self)

\* C9: the addresses device_addresses() returns stand in the order of their
\* entries in the reply, one per matched entry: nothing is sorted,
\* deduplicated or reordered.
C9_ScanKeepsReplyOrder ==
    ScanOk =>
        LET self == last.self
            Matched(e) == Passes(e, self)
            kept == SelectSeq(last.reply.val, Matched)
        IN  /\ Len(last.res.val) = Len(kept)
            /\ \A k \in 1..Len(kept) :
                  last.res.val[k] = ParseAddress(Colonised(kept[k], self)).val

C9_Witness ==
    /\ ScanOk
    /\ last.res.val = <<A1, A2, A1>>

\* C10: device_addresses() on the proxy of adapter A returns no address of a
\* device object below another adapter B, also when A's name is a proper
\* prefix of B's name (hci1, hci10).
C10_ScanStaysBelowItsAdapter ==
    ScanOk =>
        LET self == last.self
            Own(e) == OwnerName(e.path) = self.name /\ DEVICE_INTERFACE \in e.interfaces
            own == SelectSeq(last.reply.val, Own)
        IN  /\ Len(last.res.val) <= Len(own)
            /\ \A k \in 1..Len(last.res.val) :
                  \E i \in 1..Len(own) :
                      ParseAddress(Colonised(own[i], self)) =
                          [ok |-> TRUE, val |-> last.res.val[k]]

C10_Witness ==
    /\ ScanOk
    /\ last.self.name = hci1
    /\ \E i \in 1..Len(last.reply.val) :
          /\ OwnerName(last.reply.val[i].path) = hci10
          /\ DEVICE_INTERFACE \in last.reply.val[i].interfaces
    /\ last.res.val = <<A1>>

\* C3: connect_device sends a filter map that holds "Address" with the
\* address's text, holds "AddressType" with the type's text exactly when
\* address_type is Some, and holds nothing else; on success it returns the
\* object path of the daemon's reply.
C3_ConnectFilterKeys ==
    last.fn = "connect_device" =>
        LET address == last.arg[1]
            opt == last.arg[2]
            m == last.sent[1].args[1]
        IN  /\ Len(last.sent) = 1
            /\ last.sent[1].member = "ConnectDevice"
            /\ DOMAIN m = IF opt.some THEN {"Address", "AddressType"} ELSE {"Address"}
            /\ ParseAddress(m.Address) = [ok |-> TRUE, val |-> address]
            /\ address = A1 =>
                  m.Address = <<"A", "A", ":", "B", "B", ":", "C", "C", ":",
                                "D", "D", ":", "E", "E", ":", "F", "F">>
            /\ opt.some =>
                  m.AddressType = IF opt.val = "Public" THEN "public" ELSE "random"
            /\ last.reply.ok => last.res = [tag |-> "Ok", val |-> last.reply.val]

C3_Witness ==
    /\ last.fn = "connect_device"
    /\ ~last.arg[2].some
    /\ DOMAIN last.sent[1].args[1] = {"Address"}
    /\ last.res.tag = "Ok"

\* C4: for every read/write property, a get returning v, immediately followed
\* by a successful set of v, followed by a get, returns v when nothing else
\* changed the daemon's state in between.
C4_GetSetGetRoundTrip ==
    trip.stage = 3 => trip.w = trip.v

C4_Witness ==
    /\ trip.stage = 3
    /\ trip.fn = "alias"
    /\ trip.v = SystemName
    /\ props.Alias = SystemName

RemoteOps == Getters \cup Setters
                \cup {"address_type", "modalias", "remove_device", "connect_device"}

\* C5: a rejected remote call is never absorbed or retried: a getter, a
\* setter, remove_device or connect_device whose single call the daemon or the
\* transport rejects returns RemoteCallError after that one attempt, and no
\* RemoteCallError arises without the call; set_discoverable(true) while the
\* daemon's Powered is false ends in RemoteCallError, never in success.
C5_RejectedCallPropagates ==
    last.fn \in RemoteOps =>
        /\ Len(last.sent) <= 1
        /\ last.res.tag # "Panic" => Len(last.sent) = 1
        /\ (Len(last.sent) = 1 /\ ~last.reply.ok) => last.res = RemoteCallError
        /\ last.res.tag = "RemoteCallError" => Len(last.sent) = 1 /\ ~last.reply.ok
        /\ (last.current /\ last.fn = "set_discoverable" /\ last.arg /\ ~props.Powered) =>
              last.res.tag = "RemoteCallError"

C5_Witness ==
    /\ last.current
    /\ last.fn = "set_discoverable"
    /\ last.arg
    /\ ~props.Powered
    /\ ~props.Discoverable
    /\ Len(last.sent) = 1
    /\ last.res = RemoteCallError

ReadWriteGetters == {"alias", "is_powered", "is_discoverable", "is_pairable",
                     "pairable_timeout", "discoverable_timeout"}

\* C6: no property value is kept locally: every successful get, through any
\* proxy or clone, returns the value the daemon holds at that moment, so a
\* value that changed since an earlier get is seen by the next one.
C6_GetIsLive ==
    (last.current /\ last.res.tag = "Ok") =>
        /\ last.fn \in ReadWriteGetters =>
              last.res.val = Shown(props, last.sent[1].args[2])
        /\ last.fn = "address_type" =>
              ParseAddressType(props.AddressType) = [ok |-> TRUE, val |-> last.res.val]

C6_Witness ==
    /\ last.current
    /\ last.fn = "address_type"
    /\ last.res = [tag |-> "Ok", val |-> "Random"]
    /\ props.AddressType = "random"
    /\ Len(adapters) = 2

\* C7: address_type() has three outcomes, decided in this order: a failed get
\* of "AddressType" gives RemoteCallError; else "public" and "random" give
\* their variants; else any other text gives ParseError. modalias() gets and
\* then parses "Modalias" in the same order, so a missing property is a
\* RemoteCallError, not a ParseError.
C7_GetThenParse ==
    /\ last.fn = "address_type" =>
          /\ last.sent[1].args[2] = "AddressType"
          /\ ~last.reply.ok => last.res = RemoteCallError
          /\ (last.reply.ok /\ last.reply.val = "public") =>
                last.res = [tag |-> "Ok", val |-> "Public"]
          /\ (last.reply.ok /\ last.reply.val = "random") =>
                last.res = [tag |-> "Ok", val |-> "Random"]
          /\ (last.reply.ok /\ last.reply.val \notin {"public", "random"}) =>
                last.res = ParseError
    /\ last.fn = "modalias" =>
          /\ last.sent[1].args[2] = "Modalias"
          /\ ~last.reply.ok => last.res = RemoteCallError
          /\ last.reply.ok => last.res.tag \in {"Ok", "ParseError"}
          /\ (last.reply.ok /\ last.reply.val = ValidModalias) =>
                last.res = [tag |-> "Ok",
                            val |-> [source |-> <<"u", "s", "b">>, vendor |-> 7531,
                                     product |-> 582, device |-> 1343]]

C7_Witness ==
    /\ last.fn = "address_type"
    /\ last.reply = [ok |-> TRUE, val |-> "static"]
    /\ last.res = ParseError

\* C8: a proxy's object path is the well-known prefix followed by the adapter
\* name from construction on and no operation on any proxy changes it; two
\* proxies of one name have equal paths, and an operation through one leaves
\* the other's local state as it was.
C8_PathFixedAtConstruction ==
    [][ /\ \A h \in DOMAIN adapters :
              h \in DOMAIN adapters' /\ adapters'[h] = adapters[h]
        /\ \A h \in DOMAIN adapters' :
              adapters'[h].path = <<"/", "o", "r", "g", "/", "b", "l", "u", "e", "z", "/">>
                                      \o adapters'[h].name
        /\ \A g, h \in DOMAIN adapters' :
              adapters'[g].name = adapters'[h].name =>
                  adapters'[g].path = adapters'[h].path ]_vars

C8_Witness ==
    /\ Len(adapters) = 2
    /\ adapters[1].name = adapters[2].name
    /\ adapters[1].path = adapters[2].path
    /\ last.fn \in Setters
    /\ last.res.tag = "Ok"

====
